---- MODULE Spec2Model ----
(***************************************************************************)
(* PageRank core of 2.Uncertainty/pagerank/pagerank.py:                    *)
(* transition_model, sample_pagerank and iterate_pagerank, applied to a    *)
(* link graph as crawl() builds it.                                        *)
(*                                                                         *)
(* The floats of transition_model are modelled by exact rationals          *)
(* <<num, den>> in lowest terms with den > 0.  The floats sample_pagerank  *)
(* returns are IEEE 754 doubles <<e, hi, lo>>: a division and an addition  *)
(* round to the nearest double, ties to even, as the interpreter's do.     *)
(* A dict is a function; the None of "no value yet" is the empty function. *)
(***************************************************************************)
EXTENDS Integers, FiniteSets, Sequences, TLC

\* ---------------------------------------------------------------- bounds
MaxPages == 3       \* page identifiers are 1..MaxPages
MaxN     == 2       \* largest sample count n
MaxSamples == 6     \* largest sample count n of a call followed to its sum

Pages == 1..MaxPages

\* sample counts handed to sample_pagerank
NVals == (0 - 1)..MaxN

\* sample counts of the calls whose returned values are added up
SampleCounts == 1..MaxSamples

\* -------------------------------------------------------------- rationals
Abs(x) == IF x < 0 THEN 0 - x ELSE x

\* operands are handed over as function arguments so that each is evaluated
\* once, whatever the evaluation mode
GCD[a \in Nat, b \in Nat] == IF b = 0 THEN a ELSE GCD[b, a % b]

RatNormal[a \in Int, b \in Int] ==
    LET g == GCD[Abs(a), Abs(b)]
        s == IF b < 0 THEN 0 - 1 ELSE 1
    IN  <<(s * a) \div g, (s * b) \div g>>

\* the float a / b, b # 0
Rat(a, b) == RatNormal[a, b]

RatAddF[u \in Int \X Int, v \in Int \X Int] ==
    Rat(u[1] * v[2] + v[1] * u[2], u[2] * v[2])

RatAdd(x, y) == RatAddF[x, y]

RatSubF[u \in Int \X Int, v \in Int \X Int] ==
    Rat(u[1] * v[2] - v[1] * u[2], u[2] * v[2])

RatSub(x, y) == RatSubF[x, y]

RatDivIntF[u \in Int \X Int, j \in Int] == Rat(u[1], u[2] * j)

RatDivInt(x, k) == RatDivIntF[x, k]

RatOne == <<1, 1>>
RatZero == <<0, 1>>
RatLess(x, y) == x[1] * y[2] < y[1] * x[2]

RECURSIVE SumOver(_, _)
\* sum of the rational values of dict f over the keys in S
SumOver(f, S) ==
    IF S = {} THEN RatZero
    ELSE LET k == CHOOSE x \in S : TRUE
         IN  RatAdd(f[k], SumOver(f, S \ {k}))

RatSum(f) == SumOver(f, DOMAIN f)

RECURSIVE IntSumOver(_, _)
IntSumOver(f, S) ==
    IF S = {} THEN 0
    ELSE LET k == CHOOSE x \in S : TRUE
         IN  f[k] + IntSumOver(f, S \ {k})

IntSum(f) == IntSumOver(f, DOMAIN f)

\* ---------------------------------------------------------------- doubles
\* A positive double is <<e, hi, lo>>: the value (hi * 2^26 + lo) * 2^(e-52)
\* with 2^26 <= hi < 2^27 and 0 <= lo < 2^26, a 53-bit significand in two
\* limbs.  0.0 is <<0, 0, 0>>; -0.0, which Python compares equal to 0.0, is
\* the same value here.  The operands of sample_pagerank stay below 16, so
\* that every intermediate product is below 2^31.
FloatZero == <<0, 0, 0>>
FloatOne == <<0, 2^26, 0>>

\* round to nearest, ties to even: g is the first bit below the significand,
\* rest tells whether any lower bit is set
FloatRound[e \in Int, hi \in Nat, lo \in Nat, g \in Nat, rest \in Nat] ==
    IF g = 1 /\ (rest = 1 \/ lo % 2 = 1)
    THEN IF lo + 1 < 2^26 THEN <<e, hi, lo + 1>>
         ELSE IF hi + 1 < 2^27 THEN <<e, hi + 1, 0>>
         ELSE <<e + 1, 2^26, 0>>
    ELSE <<e, hi, lo>>

\* x * 2^i and y * 2^j with y * 2^j <= x * 2^i < 2 * y * 2^j, and the
\* exponent i - j of the quotient's leading bit taken out
FloatScale[x \in Nat, y \in Nat, e \in Int] ==
    IF x < y THEN FloatScale[2 * x, y, e - 1]
    ELSE IF x >= 2 * y THEN FloatScale[x, 2 * y, e + 1]
    ELSE <<x, y, e>>

\* long division of x by y > 0: 27 bits, 26 bits, the rounding bit and
\* whether a remainder is left
FloatDivF[x \in Nat, y \in Nat] ==
    IF x = 0 THEN FloatZero
    ELSE LET s  == FloatScale[x, y, 0]
             hi == (s[1] * 2^26) \div s[2]
             r1 == (s[1] * 2^26) % s[2]
             lo == (r1 * 2^26) \div s[2]
             r2 == (r1 * 2^26) % s[2]
             g  == (2 * r2) \div s[2]
             r3 == (2 * r2) % s[2]
         IN  FloatRound[s[3], hi, lo, g, IF r3 = 0 THEN 0 ELSE 1]

\* the float x / y of two ints, y # 0, of which x is 0 when y < 0
FloatDiv(x, y) == FloatDivF[Abs(x), Abs(y)]

\* <<hi, lo, rest>> is the significand with two more bits, hi * 2^28 + lo,
\* and whether a bit was shifted out; k shifts to the right
FloatShift[t \in Nat \X Nat \X Nat, k \in Nat] ==
    IF k = 0 THEN t
    ELSE FloatShift[<<t[1] \div 2,
                      (t[1] % 2) * 2^27 + t[2] \div 2,
                      IF t[3] = 1 \/ t[2] % 2 = 1 THEN 1 ELSE 0>>, k - 1]

\* the float a + b of two doubles >= 0: the operand of the smaller exponent
\* is shifted to the other's, the significands are added and the sum is
\* rounded
FloatAddF[a \in Int \X Nat \X Nat, b \in Int \X Nat \X Nat] ==
    IF a = FloatZero THEN b
    ELSE IF b = FloatZero THEN a
    ELSE IF a[1] < b[1] THEN FloatAddF[b, a]
    ELSE LET t  == FloatShift[<<b[2], 4 * b[3], 0>>, a[1] - b[1]]
             lo == 4 * a[3] + t[2]
             s  == <<a[2] + t[1] + lo \div 2^28, lo % 2^28, t[3]>>
             c  == IF s[1] >= 2^27 THEN 1 ELSE 0
             u  == FloatShift[s, c]
         IN  FloatRound[a[1] + c, u[1], u[2] \div 4, (u[2] \div 2) % 2,
                        IF u[3] = 1 \/ u[2] % 2 = 1 THEN 1 ELSE 0]

FloatAdd(a, b) == FloatAddF[a, b]

RECURSIVE FloatSumFrom(_, _, _)
\* the values of dict f over the keys in S added to acc one after the
\* other, in the order of the keys
FloatSumFrom(f, S, acc) ==
    IF S = {} THEN acc
    ELSE LET k == CHOOSE x \in S : \A y \in S : x <= y
         IN  FloatSumFrom(f, S \ {k}, FloatAdd(acc, f[k]))

\* sum(f.values()): the values are added from the first key to the last,
\* the order in which lines 97-99 and 112-114 insert them
FloatSum(f) == FloatSumFrom(f, DOMAIN f, FloatZero)

\* DAMPING = 0.85, line 6
DAMPING == Rat(17, 20)

\* damping factors handed to transition_model and iterate_pagerank, some of
\* them outside (0,1)
Dampings == { Rat(0 - 1, 4), RatZero, Rat(1, 4), DAMPING, RatOne, Rat(5, 4) }

\* damping factors handed to sample_pagerank; its draws depend on the
\* damping factor only through which weights are positive: all of them for
\* a factor in (0,1), those of the linked pages for 1
SampleDampings == { DAMPING, RatOne }

None == <<>>

\* ------------------------------------------------------------ link graphs
\* what crawl() returns: every link target is a key, no page links to itself
Corpora ==
    UNION { { c \in [K -> SUBSET K] : \A p \in K : p \notin c[p] }
            : K \in SUBSET Pages }

\* ------------------------------------------------------- transition_model
\* lines 66-70: no outgoing link, every page gets 1/len(corpus)
DanglingProbabilities(c) ==
    [webpage \in DOMAIN c |-> Rat(1, Cardinality(DOMAIN c))]

\* line 74
prob_at_random(c, d) ==
    RatDivInt(RatSub(RatOne, d), Cardinality(DOMAIN c))

\* line 76 without the random-jump share
LinkedProbabilityNoRandom(c, page, d) ==
    RatDivInt(d, Cardinality(c[page]))

\* line 76 dividing by the number of pages instead of the number of links
LinkedProbabilityByCorpus(c, page, d) ==
    RatAdd(RatDivInt(d, Cardinality(DOMAIN c)), prob_at_random(c, d))

\* line 76: value stored for a page of corpus[page]
LinkedProbability(c, page, d) ==
    RatAdd(RatDivInt(d, Cardinality(c[page])), prob_at_random(c, d))

\* lines 74-83: the first loop fills the keys of corpus[page], the second
\* the keys of corpus that are not in corpus[page]
NormalProbabilities(c, page, d) ==
    [webpage \in c[page] \cup { w \in DOMAIN c : w \notin c[page] } |->
        IF webpage \in c[page]
        THEN LinkedProbability(c, page, d)
        ELSE prob_at_random(c, d)]

\* transition_model without the branch of lines 66-70
transition_modelNoDangling(c, page, d) ==
    NormalProbabilities(c, page, d)

\* transition_model(corpus, page, damping_factor), page a key of corpus
transition_model(c, page, d) ==
    IF Cardinality(c[page]) = 0
    THEN DanglingProbabilities(c)
    ELSE NormalProbabilities(c, page, d)

\* -------------------------------------------------------- sample_pagerank
\* random.choices(population, weights, k=1)[0] with weights >= 0 summing to
\* a positive total: any member of the population whose weight is positive
\* (the sign of a rational in lowest terms is the sign of its numerator)
Choices(prob) == { w \in DOMAIN prob : prob[w][1] > 0 }

\* lines 97-99
InitialVisited(c) == [webpage \in DOMAIN c |-> 0]

\* line 107 running once too often
LoopContinuesInclusive(sample, n) == sample <= n

\* line 107: range(n) still has an element after `sample` iterations
LoopContinues(sample, n) == sample < n

\* line 110 storing a flag instead of counting
RecordVisitFlag(v, choice) == [v EXCEPT ![choice] = 1]

\* line 110
RecordVisit(v, choice) == [v EXCEPT ![choice] = @ + 1]

\* lines 112-114 dividing by the number of pages
PageRankOfByPages(v, n) ==
    [webpage \in DOMAIN v |-> FloatDiv(v[webpage], Cardinality(DOMAIN v))]

\* lines 112-114, n # 0: the float division visited[webpage] / n
PageRankOf(v, n) == [webpage \in DOMAIN v |-> FloatDiv(v[webpage], n)]

\* ------------------------------------------------------------------ state
VARIABLES
    corpus,          \* the link graph handed to the functions
    call,            \* which function was called
    pc,              \* "idle", "sample_loop", "returned", "raised"
    page,            \* transition_model's page argument
    damping_factor,  \* the damping_factor argument, a rational
    n,               \* sample_pagerank's n
    sample,          \* iterations of the loop of line 107 completed
    choice,          \* sample_pagerank's current page
    visited,         \* the visit counters
    ret,             \* the returned dict
    exc              \* the exception raised

vars == <<corpus, call, pc, page, damping_factor, n, sample, choice,
          visited, ret, exc>>

Init ==
    /\ corpus \in Corpora
    /\ call = "none"
    /\ pc = "idle"
    /\ page = 0
    /\ damping_factor = RatZero
    /\ n = 0
    /\ sample = 0
    /\ choice = 0
    /\ visited = None
    /\ ret = None
    /\ exc = "none"

\* transition_model(corpus, p, d) called on its own
CallTransitionModel(p, d) ==
    /\ pc = "idle"
    /\ call' = "transition_model"
    /\ page' = p
    /\ damping_factor' = d
    /\ IF p \notin DOMAIN corpus
       THEN /\ pc' = "raised"          \* corpus[page], line 66
            /\ exc' = "KeyError"
            /\ ret' = ret
       ELSE /\ pc' = "returned"
            /\ exc' = exc
            /\ ret' = transition_model(corpus, p, d)
    /\ corpus' = corpus
    /\ UNCHANGED <<n, sample, choice, visited>>

\* sample_pagerank(corpus, d, n0), lines 97-106
CallSamplePagerank(d, n0, first) ==
    /\ pc = "idle"
    /\ call' = "sample_pagerank"
    /\ damping_factor' = d
    /\ n' = n0
    /\ visited' = InitialVisited(corpus)
    /\ IF Cardinality(DOMAIN corpus) = 0
       THEN /\ pc' = "raised"          \* 1/len(corpus), line 102
            /\ exc' = "ZeroDivisionError"
            /\ choice' = choice
       ELSE /\ first \in DOMAIN corpus
            /\ choice' = first          \* first_choice, lines 103, 106
            /\ pc' = "sample_loop"
            /\ exc' = exc
    /\ corpus' = corpus
    /\ UNCHANGED <<page, sample, ret>>

\* lines 107-110 patching a page without links in place
SampleStepPatchDangling(next) ==
    /\ pc = "sample_loop"
    /\ LoopContinues(sample, n)
    /\ choice' = next
    /\ next \in Choices(transition_model(corpus, choice, damping_factor))
    /\ visited' = RecordVisit(visited, next)
    /\ sample' = sample + 1
    /\ corpus' = IF corpus[choice] = {}
                 THEN [corpus EXCEPT ![choice] = DOMAIN corpus \ {choice}]
                 ELSE corpus
    /\ UNCHANGED <<call, pc, page, damping_factor, n, ret, exc>>

\* one iteration of the loop of lines 107-110
SampleStep(next) ==
    /\ pc = "sample_loop"
    /\ LoopContinues(sample, n)
    /\ choice' = next
    /\ next \in Choices(transition_model(corpus, choice, damping_factor))
    /\ visited' = RecordVisit(visited, next)
    /\ sample' = sample + 1
    /\ corpus' = corpus
    /\ UNCHANGED <<call, pc, page, damping_factor, n, ret, exc>>

\* the loop of lines 107-110 makes a step
SampleLoop == \E next \in Pages : SampleStep(next)

\* the loop is over: lines 112-116
SampleFinish ==
    /\ pc = "sample_loop"
    /\ ~LoopContinues(sample, n)
    /\ IF n = 0
       THEN /\ pc' = "raised"          \* visited[webpage] / n, line 114
            /\ exc' = "ZeroDivisionError"
            /\ ret' = ret
       ELSE /\ pc' = "returned"
            /\ exc' = exc
            /\ ret' = PageRankOf(visited, n)
    /\ corpus' = corpus
    /\ UNCHANGED <<call, page, damping_factor, n, sample, choice, visited>>

\* iterate_pagerank(corpus, d), line 127
CallIteratePagerank(d) ==
    /\ pc = "idle"
    /\ call' = "iterate_pagerank"
    /\ damping_factor' = d
    /\ pc' = "raised"
    /\ exc' = "NotImplementedError"
    /\ corpus' = corpus
    /\ UNCHANGED <<page, n, sample, choice, visited, ret>>

Next ==
    \/ \E p \in Pages, d \in Dampings : CallTransitionModel(p, d)
    \/ \E d \in SampleDampings, n0 \in NVals, first \in Pages :
          CallSamplePagerank(d, n0, first)
    \/ SampleLoop
    \/ SampleFinish
    \/ \E d \in Dampings : CallIteratePagerank(d)

Spec == Init /\ [][Next]_vars

\* the interpreter keeps executing: the loop makes its next step while one
\* is left, and the statements after the loop run once it is over
FairSpec == Spec /\ WF_vars(SampleLoop) /\ WF_vars(SampleFinish)

\* sample_pagerank alone, called with n from 1 to MaxSamples and followed to
\* its return value
SamplerNext ==
    \/ \E d \in SampleDampings, n0 \in SampleCounts, first \in Pages :
          CallSamplePagerank(d, n0, first)
    \/ SampleLoop
    \/ SampleFinish

SamplerSpec == Init /\ [][SamplerNext]_vars

\* ================================================================ claims
ValidDamping(d) == RatLess(RatZero, d) /\ RatLess(d, RatOne)
NPages == Cardinality(DOMAIN corpus)
TMReturned == call = "transition_model" /\ pc = "returned"
SampleCalled == call = "sample_pagerank"

\* C1: for a damping factor in (0,1), the values of the distribution that
\* transition_model returns sum to 1, in the dangling and the normal case.
C1_SumsToOne ==
    (TMReturned /\ ValidDamping(damping_factor)) => RatSum(ret) = RatOne

C1_Witness ==
    /\ TMReturned
    /\ ValidDamping(damping_factor)
    /\ Cardinality(corpus[page]) = 2
    /\ NPages = 3
    /\ RatSum(ret) = RatOne

\* C2: for a page without outgoing links transition_model returns 1/N for
\* every page of the graph, the page itself included, whatever d is.
C2_DanglingUniform ==
    (TMReturned /\ corpus[page] = {}) =>
        /\ DOMAIN ret = DOMAIN corpus
        /\ \A w \in DOMAIN corpus : ret[w][1] * NPages = ret[w][2]

C2_Witness ==
    /\ TMReturned
    /\ corpus[page] = {}
    /\ NPages >= 2
    /\ damping_factor # RatZero
    /\ \A w \in DOMAIN corpus : ret[w] = <<1, NPages>>

\* C3: for a page with outgoing links transition_model returns a value for
\* exactly the pages of the graph: d/|L(p)| + (1-d)/N for a linked page,
\* (1-d)/N for every other page; with d in (0,1) no linked page is below
\* (1-d)/N.  With d = a/b: d/L + (1-d)/N = (a*N + (b-a)*L) / (b*L*N).
C3_NormalRule ==
    (TMReturned /\ corpus[page] # {}) =>
        LET a == damping_factor[1]
            b == damping_factor[2]
            L == Cardinality(corpus[page])
        IN  /\ DOMAIN ret = DOMAIN corpus
            /\ \A q \in corpus[page] :
                  /\ ret[q][1] * (b * L * NPages)
                        = ret[q][2] * (a * NPages + (b - a) * L)
                  /\ ValidDamping(damping_factor) =>
                        ret[q][1] * (b * NPages) >= ret[q][2] * (b - a)
            /\ \A q \in DOMAIN corpus \ corpus[page] :
                  ret[q][1] * (b * NPages) = ret[q][2] * (b - a)

C3_Witness ==
    /\ TMReturned
    /\ ValidDamping(damping_factor)
    /\ Cardinality(corpus[page]) = 1
    /\ NPages = 3
    /\ \E q \in corpus[page] : RatLess(ret[page], ret[q])

\* the double f is x / y up to its first 27 bits, 0 < x <= y, or 0 = x
IsQuotient(f, x, y) ==
    IF x = 0 THEN f = FloatZero
    ELSE /\ f[1] <= 0
         /\ 2^26 <= f[2] /\ f[2] < 2^27
         /\ 0 <= f[3] /\ f[3] < 2^26
         /\ f[2] * y <= x * 2^(26 - f[1])
         /\ x * 2^(26 - f[1]) <= (f[2] + 1) * y

\* the double f differs from 1.0 by 1e-9 at most: 1e-9 is 4503599.6 units
\* of 2^-52 above 1.0 and 9007199.2 units of 2^-53 below
NearOne(f) ==
    \/ f[1] = 0 /\ f[2] = 2^26 /\ f[3] <= 4503599
    \/ f[1] = 0 - 1 /\ f[2] = 2^27 - 1 /\ 2^26 - f[3] <= 9007199

\* C4 as stated: during sampling the visit counters sum to the number of
\* steps made, and for n >= 1 the returned dict has one entry visited/n per
\* page of the graph, the entries summing to exactly 1.0.
C4_SumExactlyOne ==
    /\ (SampleCalled /\ pc = "sample_loop") => IntSum(visited) = sample
    /\ (SampleCalled /\ pc = "returned" /\ n >= 1) =>
          /\ DOMAIN ret = DOMAIN corpus
          /\ \A w \in DOMAIN corpus : IsQuotient(ret[w], visited[w], n)
          /\ FloatSum(ret) = FloatOne

\* C4: during sampling the visit counters sum to exactly the number of
\* steps made, and for n >= 1 the counters of the returned call sum to
\* exactly n and the returned dict has one entry visited/n per page of the
\* graph, the entries summing to 1.0 within 1e-9.
C4_CountsSumToSteps ==
    /\ (SampleCalled /\ pc = "sample_loop") => IntSum(visited) = sample
    /\ (SampleCalled /\ pc = "returned" /\ n >= 1) =>
          /\ IntSum(visited) = n
          /\ DOMAIN ret = DOMAIN corpus
          /\ \A w \in DOMAIN corpus : IsQuotient(ret[w], visited[w], n)
          /\ NearOne(FloatSum(ret))

\* the counts 1, 4, 1 of n = 6 steps: 1/6 + 4/6 + 1/6 is one unit in the
\* last place below 1.0
C4_Witness ==
    /\ SampleCalled
    /\ pc = "returned"
    /\ n = 6
    /\ DOMAIN corpus = {1, 2, 3}
    /\ visited = [w \in {1, 2, 3} |-> IF w = 2 THEN 4 ELSE 1]
    /\ FloatSum(ret) = <<0 - 1, 2^27 - 1, 2^26 - 1>>

\* C5: on a non-empty graph with d in (0,1) iterate_pagerank returns a rank
\* for every page, the ranks summing to 1, and ends in no other way.
C5_IterateConverges ==
    (call = "iterate_pagerank" /\ NPages >= 1
        /\ ValidDamping(damping_factor)) =>
        /\ pc = "returned"
        /\ DOMAIN ret = DOMAIN corpus
        /\ RatSum(ret) = RatOne

\* C6: sample_pagerank returns no rank mapping when the graph is empty or
\* n <= 0.
C6_SampleRejectsBadInput ==
    (SampleCalled /\ (NPages = 0 \/ n <= 0)) => pc # "returned"

\* C7: transition_model returns no distribution when the page is not a key
\* of the graph or the damping factor is outside (0,1).
C7_TransitionRejectsBadInput ==
    (call = "transition_model"
        /\ (page \notin DOMAIN corpus \/ ~ValidDamping(damping_factor))) =>
        pc # "returned"

\* C8: on a graph of a single page and n >= 1, sample_pagerank raises
\* nothing, every draw is that page, every visit is counted on it and the
\* page's returned rank is 1.
C8_SinglePage ==
    (SampleCalled /\ NPages = 1 /\ n >= 1) =>
        /\ pc # "raised"
        /\ choice \in DOMAIN corpus
        /\ visited[choice] = sample
        /\ pc = "returned" => ret = [w \in DOMAIN corpus |-> FloatOne]

C8_Witness ==
    /\ SampleCalled
    /\ NPages = 1
    /\ n >= 2
    /\ pc = "returned"
    /\ ret[choice] = FloatOne

\* C9: no step of transition_model or sample_pagerank changes the link
\* graph: its keys and every link set stay what they were.
C9_GraphUnchanged == [][corpus' = corpus]_vars

C9_Witness ==
    /\ SampleCalled
    /\ pc = "returned"
    /\ sample >= 2
    /\ corpus[choice] = {}
    /\ \E w \in DOMAIN corpus : corpus[w] # {}

\* C10: for n >= 1 on a non-empty graph sample_pagerank ends by returning
\* after exactly n steps; a step draws a page that has positive probability
\* in transition_model's distribution for the current page, counts one
\* visit for it and makes it the current page; the starting page is not
\* counted when it is chosen.  The loop is always left (C10_Exhausted, last
\* conjunct), it is left only when sample = n (C10_StepContract) and then
\* the call returns without raising (C10_EndsAfterN).
C10_StepContract ==
    (SampleCalled /\ pc = "sample_loop" /\ n >= 1) =>
        /\ sample' = sample + 1 =>
              /\ sample < n
              /\ RatLess(RatZero,
                    transition_model(corpus, choice, damping_factor)[choice'])
              /\ visited'[choice'] = visited[choice'] + 1
              /\ \A w \in DOMAIN corpus \ {choice'} : visited'[w] = visited[w]
        /\ sample' = sample => (pc' # "sample_loop" => sample = n)
        /\ sample' \in {sample, sample + 1}

C10_StartNotCounted ==
    (SampleCalled /\ pc = "sample_loop" /\ sample = 0) =>
        /\ choice \in DOMAIN corpus
        /\ \A w \in DOMAIN corpus : visited[w] = 0

C10_EndsAfterN ==
    (SampleCalled /\ NPages >= 1 /\ n >= 1) =>
        /\ pc # "raised"
        /\ pc = "returned" => (sample = n /\ IntSum(visited) = n)

C10_Exhausted ==
    /\ [][C10_StepContract]_vars
    /\ [](C10_StartNotCounted /\ C10_EndsAfterN)
    /\ []<>(pc # "sample_loop")

C10_Witness ==
    /\ SampleCalled
    /\ pc = "returned"
    /\ n = 2
    /\ sample = 2
    /\ NPages = 3
    /\ visited[choice] = 1
    /\ \E w \in DOMAIN corpus : visited[w] = 0

====
